---------------------------- MODULE Spec2Model ----------------------------
(***************************************************************************)
(* Zen Bonsai: the DNA-seeded tree generator (3D Branch path and 2D        *)
(* drawBranch path of src/components/TreeRender.tsx) and the care loop     *)
(* (App: tick, water, fertilize, prune, wire, advance stage).              *)
(*                                                                         *)
(* Strings are sequences of character codes.  32-bit integers are pairs    *)
(* <<hi, lo>> of 16-bit limbs, so that Math.imul, ^ and >>> keep their     *)
(* width.  Reals are fixed point, rounded down: a hash float is a number   *)
(* of thousandths (0..999), an angle a number of 1/10000 radians, a 3D     *)
(* length a number of 1/10000, a 3D radius a number of 1/100000, a 2D      *)
(* length a number of 1/100 px; vitals and age are numbers of tenths,      *)
(* exact where JavaScript accumulates 0.1 and 0.2 in binary floating       *)
(* point.  The time-driven sway of a frame (windSway, branchSway, the      *)
(* group rotation) is not part of the generated structure and is left out. *)
(***************************************************************************)
EXTENDS Integers, Sequences, FiniteSets, TLC

(***************************************************************************)
(* 32-bit arithmetic on limb pairs                                         *)
(***************************************************************************)

Limb == 65536

RECURSIVE XorBits(_, _)
\* bitwise exclusive or of two naturals
XorBits(a, b) ==
  IF a = 0 THEN b
  ELSE IF b = 0 THEN a
  ELSE (((a % 2) + (b % 2)) % 2) + (2 * XorBits(a \div 2, b \div 2))

\* x ^ y on 32-bit words
Xor32(x, y) == <<XorBits(x[1], y[1]), XorBits(x[2], y[2])>>

\* x >>> 16
Shr16(x) == <<0, x[1]>>

\* x >>> 13
Shr13(x) == <<x[1] \div 8192, ((x[1] % 8192) * 8) + (x[2] \div 8192)>>

\* the full product of two 16-bit limbs, as a 32-bit word
Mul16(x, y) ==
  LET p0 == x * (y % 256)
      p1 == x * (y \div 256)
      s  == p0 + ((p1 % 256) * 256)
  IN  <<(s \div Limb) + (p1 \div 256), s % Limb>>

\* Math.imul(a, b): the low 32 bits of the product
imul(a, b) ==
  LET ll == Mul16(a[2], b[2])
      hl == Mul16(a[1], b[2])[2]
      lh == Mul16(a[2], b[1])[2]
  IN  <<(ll[1] + hl + lh) % Limb, ll[2]>>

(***************************************************************************)
(* cyrb53: the seeded hash stream                                          *)
(***************************************************************************)

H1Seed == <<57005, 48879>>   \* 0xdeadbeef
H2Seed == <<16838, 52823>>   \* 0x41c6ce57
MulA   == <<40503, 31153>>   \* 2654435761
MulB   == <<24373, 25749>>   \* 1597334677
MulC   == <<34283, 51819>>   \* 2246822507
MulD   == <<49842, 44597>>   \* 3266489909

\* one round of the for loop of cyrb53: <<h1, h2>> after character code ch
cyrb53Round(h, ch) ==
  <<imul(Xor32(h[1], <<0, ch>>), MulA), imul(Xor32(h[2], <<0, ch>>), MulB)>>

RECURSIVE cyrb53Loop(_, _)
\* <<h1, h2>> after the for loop of cyrb53 has consumed the first n characters
\* (the previous round is bound through a singleton set so that it is
\* evaluated before the round that uses it)
cyrb53Loop(str, n) ==
  IF n = 0 THEN <<H1Seed, H2Seed>>
  ELSE CHOOSE r \in {cyrb53Round(h, str[n]) : h \in {cyrb53Loop(str, n - 1)}} : TRUE

\* one of the two mixing statements after the loop of cyrb53:
\* Math.imul(a ^ (a >>> 16), 2246822507) ^ Math.imul(b ^ (b >>> 13), 3266489909)
cyrb53Mix(a, b) ==
  Xor32(imul(Xor32(a, Shr16(a)), MulC), imul(Xor32(b, Shr13(b)), MulD))

\* a return value that keeps 22 bits of h2
cyrb53ReturnWide(h1, h2) == <<((h2[1] % 64) * Limb) + h2[2], h1>>

\* the return value of cyrb53 for the final h1 and h2, as
\* <<h2 & 2097151, h1 >>> 0>>: the value is 4294967296 * first + second
cyrb53Return(h1, h2) == <<((h2[1] % 32) * Limb) + h2[2], h1>>

\* the second mixing statement and the return, for the mixed h1
cyrb53Tail(h1, h2) == cyrb53Return(h1, cyrb53Mix(h2, h1))

\* the statements of cyrb53 after the loop, for <<h1, h2>> as the loop left them
cyrb53Finish(h) == cyrb53Tail(cyrb53Mix(h[1], h[2]), h[2])

\* cyrb53(str) with seed 0
cyrb53(str) == cyrb53Finish(cyrb53Loop(str, Len(str)))

\* (val % 1000) for val = cyrb53(str); 4294967296 % 1000 = 296, 65536 % 1000 = 536
HashMod1000(v) ==
  (((v[1] % 1000) * 296) + ((v[2][1] % 1000) * 536) + v[2][2]) % 1000

RECURSIVE NumStr(_)
\* the decimal text of a natural, as JavaScript's string concatenation gives it
NumStr(n) == IF n < 10 THEN <<48 + n>> ELSE NumStr(n \div 10) \o <<48 + (n % 10)>>

(***************************************************************************)
(* Types and parameter tables (types.ts, constants.ts)                     *)
(***************************************************************************)

PINE   == "Pine"
MAPLE  == "Maple"
CHERRY == "Cherry"
OAK    == "Oak"
TreeSpecies == {PINE, MAPLE, CHERRY, OAK}

SEED    == 0
SAPLING == 1
ADULT   == 2
MASTER  == 3
GrowthStage == {SEED, SAPLING, ADULT, MASTER}

SPECIES_CONFIG ==
  [s \in TreeSpecies |->
     CASE s = PINE   -> [colorLeaf |-> "#2d4f1e", colorBark |-> "#3e2723"]
       [] s = MAPLE  -> [colorLeaf |-> "#b91c1c", colorBark |-> "#5d4037"]
       [] s = CHERRY -> [colorLeaf |-> "#fbcfe8", colorBark |-> "#4e342e"]
       [] s = OAK    -> [colorLeaf |-> "#4ade80", colorBark |-> "#5c4033"]]

(***************************************************************************)
(* Bounds of the generator's inputs                                        *)
(***************************************************************************)

MaxPrune == 2      \* pruningCount of an input record is in 0..MaxPrune
MaxWire  == 1      \* wiringState of an input record is in 0..MaxWire

TokX == <<88>>     \* the DNA segment "X"
TokY == <<89>>     \* the DNA segment "Y"
Tokens == {TokX, TokY}
Histories == {<<TokX>>, <<TokX, TokY>>}

DefaultToken == <<68, 69, 70, 65, 85, 76, 84>>   \* 'DEFAULT'
SeedToken    == <<83, 69, 69, 68>>               \* 'SEED'

\* the text of a species, the value of its enum member
speciesText(species) ==
  CASE species = PINE   -> <<80, 105, 110, 101>>
    [] species = MAPLE  -> <<77, 97, 112, 108, 101>>
    [] species = CHERRY -> <<67, 104, 101, 114, 114, 121>>
    [] species = OAK    -> <<79, 97, 107>>

\* the species of the input records that have an empty dna array or no dna
\* field
LegacySpecies == {PINE}

(***************************************************************************)
(* DNA accessor, 3D path                                                   *)
(***************************************************************************)

Min(a, b) == IF a < b THEN a ELSE b
Max(a, b) == IF a > b THEN a ELSE b

\* dna[i] of JavaScript (0-based), <<>> standing for undefined and for ''
JsAt(dna, i) == IF i >= 0 /\ i < Len(dna) THEN dna[i + 1] ELSE <<>>

\* segmentIndex of getDnaRandom
segmentIndex3D(dna, depth) == Min(depth \div 2, Len(dna) - 1)

\* segment of getDnaRandom: dna[segmentIndex] || dna[0] || 'DEFAULT'
segment3D(dna, depth) ==
  IF JsAt(dna, segmentIndex3D(dna, depth)) # <<>> THEN JsAt(dna, segmentIndex3D(dna, depth))
  ELSE IF JsAt(dna, 0) # <<>> THEN JsAt(dna, 0)
  ELSE DefaultToken

\* the string getDnaRandom hashes: segment + depth + offset
Key3D(dna, depth, offset) == segment3D(dna, depth) \o NumStr(depth) \o NumStr(offset)

(***************************************************************************)
(* The hash floats.  cyrb53 is pure, so (cyrb53(key) % 1000) is tabulated  *)
(* once over the keys the bounded inputs can form; a float is kept as its  *)
(* number of thousandths, 0..999.                                          *)
(***************************************************************************)

\* the segments the 3D path can hash: the tokens, 'DEFAULT' and the entry
\* tree.species + 'INIT' of a record without dna
Segments3D ==
  Tokens \cup {DefaultToken}
         \cup {speciesText(species) \o <<73, 78, 73, 84>> : species \in LegacySpecies}

\* the segments the 2D path can hash: the tokens, 'SEED', 'DEFAULT' and the
\* entry tree.species of a record without dna
Segments2D ==
  Tokens \cup {SeedToken, DefaultToken}
         \cup {speciesText(species) : species \in LegacySpecies}

\* the offsets the 3D path passes to getDnaRandom
Offsets3D == {0, 1, 50, 100, 200, 999} \cup {300 + p : p \in 0..(MaxPrune + 1)}

\* the cursors the 2D path passes to getDnaFloat: a branch cursor (a multiple
\* of 50) plus the decision offset
Cursors2D == {(50 * k) + o : k \in 0..32, o \in {1, 2, 10, 11, 12, 20, 21, 22, 99}}

HashKeys ==
  {seg \o NumStr(d) \o NumStr(o) : seg \in Segments3D, d \in 0..8, o \in Offsets3D}
  \cup {seg \o <<45>> \o NumStr(c) : seg \in Segments2D, c \in Cursors2D}

HashFloat == [k \in HashKeys |-> HashMod1000(cyrb53(k))]

\* getDnaRandom(dna, depth, offset), in thousandths
getDnaRandom(dna, depth, offset) == HashFloat[Key3D(dna, depth, offset)]

(***************************************************************************)
(* Structural generator, 3D path: Branch                                   *)
(*                                                                         *)
(* A length is the sequence of decay factors (in 1/10000) applied to the   *)
(* root length, a radius the number of 0.7 decays applied to the root      *)
(* radius; angles are in 1/10000 radian.  A position is <<>> for [0, 0, 0] *)
(* and <<len>> for [0, len, 0].  A node is named by the chain of React     *)
(* keys from the root.                                                     *)
(***************************************************************************)

\* a depth table whose MASTER entry is one too deep
complexity3DDeeper(stage) ==
  IF stage = SEED THEN 0
  ELSE IF stage = SAPLING THEN 3
  ELSE IF stage = ADULT THEN 5
  ELSE IF stage = MASTER THEN 8
  ELSE 1

\* complexity of TreeRender (3D)
complexity3D(stage) ==
  CASE stage = SEED    -> 0
    [] stage = SAPLING -> 3
    [] stage = ADULT   -> 5
    [] stage = MASTER  -> 7
    [] OTHER           -> 1

\* isEnd with the recursion stopping one level late (for the depth bound)
isEndLate(depth, maxDepth) == depth > maxDepth

\* isEnd of Branch
isEnd(depth, maxDepth) == depth >= maxDepth

\* the pruning test applied from depth 1 on (for the pruning re-roll)
prunedFromDepth1(dna, depth, pruneState) ==
  depth > 0 /\ getDnaRandom(dna, depth, 300 + pruneState) > 850

\* the pruning test of Branch: the call returns null
pruned(dna, depth, pruneState) ==
  depth > 1 /\ getDnaRandom(dna, depth, 300 + pruneState) > 850

\* nextLength of Branch: the length handed to the children
nextLength(length, rndStructure) == (length * (7500 + rndStructure)) \div 10000

\* a radius divided by the taper instead of multiplied
nextRadiusGrowing(radius) == (radius * 10) \div 7

\* nextRadius of Branch: the radius handed to the children
nextRadius(radius) == (radius * 7) \div 10

RECURSIVE Branch(_)
\* The calls of Branch made for <Branch {...p}/> and its descendants, one
\* record per call; omitted marks a call that returned null.  A call is keyed
\* by its path from the root (root 1, child i of k is 2k + i); lengths and
\* angles are in 1/10000, radii in 1/100000.  angleDraw, decayDraw, tiltDraw
\* and pruneDraw are the arguments (depth, offset) of the getDnaRandom calls
\* that fixed the node's angle variance, its length, its tilt and its survival;
\* childAngles are the angleOffset of its children in loop order.
Branch(p) ==
  LET rndStructure == getDnaRandom(p.dna, p.depth, 100)
      rndAngle     == getDnaRandom(p.dna, p.depth, 200)
      curveMod     == p.wireState * 2000
      childCount   == IF isEnd(p.depth, p.maxDepth) THEN 0 ELSE 2
      angleVariance == (rndAngle * 6) - 3000
      angleOffset(i) == (IF i = 0 THEN 6000 ELSE -6000) + angleVariance + curveMod
      rotX(i)      == getDnaRandom(p.dna, p.depth + 1, i * 50) * 6
      child(i)     == Branch([p EXCEPT !.key = (2 * p.key) + i,
                                       !.posY = p.length,
                                       !.rotX = rotX(i),
                                       !.rotZ = angleOffset(i),
                                       !.length = nextLength(p.length, rndStructure),
                                       !.radius = nextRadius(p.radius),
                                       !.depth = p.depth + 1,
                                       !.angleDraw = <<p.depth, 200>>,
                                       !.decayDraw = <<p.depth, 100>>,
                                       !.tiltDraw = <<p.depth + 1, i * 50>>])
      node == [key |-> p.key, depth |-> p.depth,
               posY |-> p.posY, rotX |-> p.rotX, rotZ |-> p.rotZ,
               length |-> p.length, radius |-> p.radius, topRadius |-> nextRadius(p.radius),
               foliage |-> isEnd(p.depth, p.maxDepth),
               childCount |-> childCount,
               childAngles |-> [i \in 1..childCount |-> angleOffset(i - 1)],
               omitted |-> pruned(p.dna, p.depth, p.pruneState),
               angleDraw |-> p.angleDraw, decayDraw |-> p.decayDraw,
               tiltDraw |-> p.tiltDraw,
               pruneDraw |-> IF p.depth > 1 THEN <<p.depth, 300 + p.pruneState>>
                             ELSE <<>>]
  IN  IF node.omitted THEN {node}
      ELSE {node} \cup UNION {child(i) : i \in 0..(childCount - 1)}

\* SeedObject: the seed visual
SeedObject(dna, species) ==
  [seedHash |-> getDnaRandom(dna, 0, 1), color |-> SPECIES_CONFIG[species].colorBark]

\* leafColor of Branch: the species' leaf colour and its lightness offset
leafColor(dna, maxDepth, species) ==
  <<SPECIES_CONFIG[species].colorLeaf, getDnaRandom(dna, maxDepth, 999) - 500>>

\* dna of TreeRender (3D): tree.dna || [tree.species + 'INIT']; a record
\* without dna field has no "dna" in its domain, and an empty array is truthy
dna3D(tree) ==
  IF "dna" \in DOMAIN tree THEN tree.dna
  ELSE <<speciesText(tree.species) \o <<73, 78, 73, 84>>>>

\* the root <Branch/> of TreeRender (3D)
RootBranch(tree) ==
  Branch([key |-> 1, posY |-> 0, rotX |-> 0, rotZ |-> 0,
          length |-> 15000, radius |-> 30000, depth |-> 0,
          maxDepth |-> complexity3D(tree.stage),
          pruneState |-> tree.pruningCount,
          wireState |-> tree.wiringState, dna |-> dna3D(tree),
          angleDraw |-> <<>>, decayDraw |-> <<>>, tiltDraw |-> <<>>])

\* TreeRender (3D): what one evaluation renders for the record tree: the
\* seed visual or the branch nodes (nodes), and the Branch calls that
\* returned null (omitted)
TreeRender3D(tree) ==
  IF tree.stage = SEED
  THEN [seed |-> <<SeedObject(dna3D(tree), tree.species)>>, nodes |-> {}, omitted |-> {},
        colorBark |-> SPECIES_CONFIG[tree.species].colorBark, leafColor |-> <<>>]
  ELSE [seed |-> <<>>,
        nodes |-> {c \in RootBranch(tree) : ~c.omitted},
        omitted |-> {c \in RootBranch(tree) : c.omitted},
        colorBark |-> SPECIES_CONFIG[tree.species].colorBark,
        leafColor |-> leafColor(dna3D(tree), complexity3D(tree.stage), tree.species)]

(***************************************************************************)
(* DNA accessor and structural generator, 2D path: getDnaFloat, drawLeaf,  *)
(* drawBranch.  Math.random() is a stream whose state at the start of a    *)
(* frame is not known: a draw returns MathRandom(rng) and moves the engine *)
(* to NextRng(rng).                                                        *)
(***************************************************************************)

MaxRng == 1        \* engine states of Math.random() are 0..MaxRng

MathRandom(rng) == ((rng * 379) + 125) % 1000
NextRng(rng) == (rng + 1) % (MaxRng + 1)

\* segmentIdx of getDnaFloat
segmentIdx2D(dna, cursor) == (cursor \div 10) % (IF Len(dna) = 0 THEN 1 ELSE Len(dna))

\* a segment that falls back to the literal of the other accessor
segment2DDefault(dna, cursor) ==
  IF JsAt(dna, segmentIdx2D(dna, cursor)) # <<>> THEN JsAt(dna, segmentIdx2D(dna, cursor))
  ELSE DefaultToken

\* segment of getDnaFloat: dna[segmentIdx] if truthy, else 'SEED'
segment2D(dna, cursor) ==
  IF JsAt(dna, segmentIdx2D(dna, cursor)) # <<>> THEN JsAt(dna, segmentIdx2D(dna, cursor))
  ELSE SeedToken

\* the string getDnaFloat hashes: `${segment}-${cursor}`
Key2D(dna, cursor) == segment2D(dna, cursor) \o <<45>> \o NumStr(cursor)

\* getDnaFloat(dna, cursor), in thousandths
getDnaFloat(dna, cursor) == HashFloat[Key2D(dna, cursor)]

\* complexity of TreeRender (2D)
complexity2D(stage) ==
  CASE stage = SEED    -> 0
    [] stage = SAPLING -> 4
    [] stage = ADULT   -> 7
    [] stage = MASTER  -> 9
    [] OTHER           -> 1

\* drawLeaf: the leaf drawn, as (the Math.random() draw of its sway, its fill
\* colour), and the engine state after its Math.random() calls
drawLeaf(species, rng) ==
  IF species = CHERRY
  THEN [leaf |-> <<MathRandom(rng),
                   IF MathRandom(NextRng(rng)) > 500
                   THEN SPECIES_CONFIG[species].colorLeaf ELSE "#fed7aa">>,
        rng |-> NextRng(NextRng(rng))]
  ELSE [leaf |-> <<MathRandom(rng), SPECIES_CONFIG[species].colorLeaf>>,
        rng |-> NextRng(rng)]

\* spread of drawBranch
spread2D(species) ==
  IF species = OAK THEN 10000 ELSE IF species = PINE THEN 6000 ELSE 8000

\* the leaf test of drawBranch
leafDrawn(dna, depth, maxDepth, cursor) ==
  (depth > maxDepth - 3 \/ depth = maxDepth) /\ getDnaFloat(dna, cursor + 99) > 400

RECURSIVE drawBranch(_, _)
RECURSIVE drawChildren(_, _, _, _)

\* the angle of child i of the branchCount children of the call with
\* arguments a, without the branchSway of the frame time
childAngle2D(a, i, branchCount) ==
  LET variance  == (getDnaFloat(a.dna, a.cursor + 10 + i) - 500) * 5
      baseAngle == (((2 * i) - (branchCount - 1)) * spread2D(a.species))
                     \div (branchCount - 1)
  IN  baseAngle + variance

\* drawBranch with arguments a, the engine of Math.random() in state rng:
\* the nodes drawn by the call and its recursive calls, and the engine state
\* after it.  A node is keyed by its path from the root (root 1, child i of k
\* is 4k + i); angles are in 1/10000 rad, lengths in 1/100 px.  angleDraw and
\* decayDraw are the cursors of the getDnaFloat calls that fixed the node's
\* angle variance and its length; callerLen is the len of the call that made
\* this one, childAngles are the angles of its children in loop order.
drawBranch(a, rng) ==
  LET width       == Max(1, (a.maxDepth - a.depth) * 3)
      staticCurve == getDnaFloat(a.dna, a.cursor + 1) - 500
      hasLeaf     == leafDrawn(a.dna, a.depth, a.maxDepth, a.cursor)
      leaf        == IF hasLeaf THEN drawLeaf(a.species, rng)
                     ELSE [leaf |-> <<>>, rng |-> rng]
      branchCount == IF a.depth < a.maxDepth
                     THEN ((getDnaFloat(a.dna, a.cursor + 2) * 2) \div 1000) + 2
                     ELSE 0
      kids        == drawChildren(a, 0, branchCount, leaf.rng)
      node == [key |-> a.key, depth |-> a.depth, angle |-> a.angle,
               length |-> a.len, width |-> width, curve |-> staticCurve,
               leaf |-> leaf.leaf, childCount |-> branchCount,
               childAngles |-> [i \in 1..branchCount |-> childAngle2D(a, i - 1, branchCount)],
               cursor |-> a.cursor,
               angleDraw |-> a.angleDraw, decayDraw |-> a.decayDraw,
               callerLen |-> a.callerLen]
  IN  [nodes |-> {node} \cup kids.nodes, rng |-> kids.rng]

\* the for loop of drawBranch from child i on
drawChildren(a, i, branchCount, rng) ==
  IF i >= branchCount THEN [nodes |-> {}, rng |-> rng]
  ELSE LET decay     == 7000 + getDnaFloat(a.dna, a.cursor + 20 + i)
           first     == drawBranch([a EXCEPT !.key = (4 * a.key) + i,
                                             !.angle = childAngle2D(a, i, branchCount),
                                             !.len = (a.len * decay) \div 10000,
                                             !.depth = a.depth + 1,
                                             !.cursor = a.cursor + 100 + (i * 50),
                                             !.angleDraw = <<a.cursor + 10 + i>>,
                                             !.decayDraw = <<a.cursor + 20 + i>>,
                                             !.callerLen = <<a.len>>],
                                   rng)
           rest      == drawChildren(a, i + 1, branchCount, first.rng)
       IN  [nodes |-> first.nodes \cup rest.nodes, rng |-> rest.rng]

\* drawSeed: the seed visual
drawSeed(color) == [color |-> color]

\* dna of the useFrame callback: tree.dna || [tree.species]
dna2D(tree) ==
  IF "dna" \in DOMAIN tree THEN tree.dna ELSE <<speciesText(tree.species)>>

\* the useFrame callback of TreeRender (2D): what one frame draws for tree
\* at frame time time, and the state of Math.random() after it
TreeRender2D(tree, time, rng) ==
  IF tree.stage = SEED
  THEN [frame |-> [seed |-> <<drawSeed(SPECIES_CONFIG[tree.species].colorBark)>>,
                   nodes |-> {}, omitted |-> {},
                   colorBark |-> SPECIES_CONFIG[tree.species].colorBark,
                   leafColor |-> <<>>],
        rng |-> rng]
  ELSE LET d == drawBranch([key |-> 1, angle |-> 0, len |-> 14000, depth |-> 1,
                            maxDepth |-> complexity2D(tree.stage), cursor |-> 0,
                            dna |-> dna2D(tree), species |-> tree.species,
                            angleDraw |-> <<>>, decayDraw |-> <<>>,
                            callerLen |-> <<>>], rng)
       IN  [frame |-> [seed |-> <<>>, nodes |-> d.nodes, omitted |-> {},
                       colorBark |-> SPECIES_CONFIG[tree.species].colorBark,
                       leafColor |-> <<>>],
            rng |-> d.rng]

(***************************************************************************)
(* State                                                                   *)
(*                                                                         *)
(* Care loop (App): inventory and activeTreeId are React state as the      *)
(* queued updaters leave it; view is the state the last render captured,   *)
(* which is what the handlers' closures read (activeTree, activeTreeId);   *)
(* advice is the advice text.  Vitals and age are kept in tenths.          *)
(*                                                                         *)
(* Generator: rec is the record handed to TreeRender, path the rendering   *)
(* path of the build, frames the evaluations made so far, rng the state of *)
(* Math.random(), clock the frame clock.                                   *)
(***************************************************************************)
VARIABLES inventory, activeTreeId, view, advice, pending, events,
          rec, path, frames, varied, rng, clock,
          text, digest,
          apiKey, service, promise, isLoadingAdvice, requests

careVars == <<inventory, activeTreeId, view, advice, pending, events>>
genVars  == <<rec, path, frames, varied, rng, clock>>
hashVars == <<text, digest>>
adviceVars == <<apiKey, service, promise, isLoadingAdvice, requests>>
vars     == <<inventory, activeTreeId, view, advice, pending, events,
              rec, path, frames, varied, rng, clock, text, digest,
              apiKey, service, promise, isLoadingAdvice, requests>>

\* no string is being hashed on its own
HashIdle ==
  /\ text = <<>>
  /\ digest = <<>>

\* the Master Gardener is not consulted: no key is read, no call is made
AdviceIdle ==
  /\ apiKey = <<>>
  /\ service = [kind |-> "rejects", text |-> <<>>]
  /\ promise = [state |-> "none", value |-> <<>>, tree |-> <<>>]
  /\ isLoadingAdvice = FALSE
  /\ requests = 0

(***************************************************************************)
(* Generator runs: one record, evaluated on one path, changed at most once *)
(* between two evaluations                                                 *)
(***************************************************************************)

\* the fields of TreeData a generator is handed; age and the vitals (in
\* tenths) are those of a tree just created
Records ==
  [species : TreeSpecies, stage : GrowthStage, dna : Histories,
   pruningCount : 0..MaxPrune, wiringState : 0..MaxWire,
   age : {0}, water : {500}, fertilizer : {500}, health : {1000}]

\* records whose dna array is empty
EmptyRecords ==
  [species : LegacySpecies, stage : GrowthStage, dna : {<<>>},
   pruningCount : {0}, wiringState : {0},
   age : {0}, water : {500}, fertilizer : {500}, health : {1000}]

\* records saved before there was a dna field
LegacyRecords ==
  [species : LegacySpecies, stage : GrowthStage,
   pruningCount : {0}, wiringState : {0},
   age : {0}, water : {500}, fertilizer : {500}, health : {1000}]

\* the record tree has a dna field that holds at least one segment
hasHistory(tree) == "dna" \in DOMAIN tree /\ tree.dna # <<>>

\* the care loop at rest while the generator runs
CareIdle ==
  /\ inventory = <<>>
  /\ activeTreeId = 0
  /\ view = [inventory |-> <<>>, activeTreeId |-> 0]
  /\ advice = "none"
  /\ pending = 0
  /\ events = 0

\* The 2D path reads neither pruningCount nor wiringState: its records start
\* with both at 0, as handleCreateTree makes them.  The 3D path makes no call
\* of Math.random().
GenInit ==
  /\ CareIdle
  /\ HashIdle
  /\ AdviceIdle
  /\ rec \in Records \cup EmptyRecords \cup LegacyRecords
  /\ path \in {"3D", "2D"}
  /\ path = "2D" => (rec.pruningCount = 0 /\ rec.wiringState = 0)
  /\ frames = <<>>
  /\ varied = FALSE
  /\ rng \in 0..MaxRng
  /\ path = "3D" => rng = 0
  /\ clock = 0

\* an evaluation that counts a prune on the record it is given
Render3DWriting ==
  /\ path = "3D"
  /\ Len(frames) < 2
  /\ frames' = Append(frames, [rec |-> rec, out |-> TreeRender3D(rec)])
  /\ rec' = [rec EXCEPT !.pruningCount = @ + 1]
  /\ UNCHANGED <<path, varied, rng, clock>>
  /\ UNCHANGED careVars
  /\ UNCHANGED hashVars
  /\ UNCHANGED adviceVars

\* one evaluation of TreeRender (3D) on rec
Render3D ==
  /\ path = "3D"
  /\ Len(frames) < 2
  /\ frames' = Append(frames, [rec |-> rec, out |-> TreeRender3D(rec)])
  /\ UNCHANGED <<rec, path, varied, rng, clock>>
  /\ UNCHANGED careVars
  /\ UNCHANGED hashVars
  /\ UNCHANGED adviceVars

\* one frame of TreeRender (2D) on rec
Render2D ==
  /\ path = "2D"
  /\ Len(frames) < 2
  /\ LET r == TreeRender2D(rec, clock, rng)
     IN  /\ frames' = Append(frames, [rec |-> rec, out |-> r.frame])
         /\ rng' = r.rng
  /\ clock' = clock + 1
  /\ UNCHANGED <<rec, path, varied>>
  /\ UNCHANGED careVars
  /\ UNCHANGED hashVars
  /\ UNCHANGED adviceVars

\* between the two evaluations: the record after one more prune
VaryPrune ==
  /\ Len(frames) = 1 /\ ~varied
  /\ hasHistory(rec)
  /\ rec' = [rec EXCEPT !.pruningCount = @ + 1]
  /\ varied' = TRUE
  /\ UNCHANGED <<path, frames, rng, clock>>
  /\ UNCHANGED careVars
  /\ UNCHANGED hashVars
  /\ UNCHANGED adviceVars

\* between the two evaluations: the record after one more wire
VaryWire ==
  /\ Len(frames) = 1 /\ ~varied
  /\ hasHistory(rec)
  /\ rec' = [rec EXCEPT !.wiringState = (@ + 1) % 5]
  /\ varied' = TRUE
  /\ UNCHANGED <<path, frames, rng, clock>>
  /\ UNCHANGED careVars
  /\ UNCHANGED hashVars
  /\ UNCHANGED adviceVars

\* between the two evaluations: the record with one more DNA segment
VaryHistory ==
  /\ Len(frames) = 1 /\ ~varied
  /\ hasHistory(rec)
  /\ Len(rec.dna) = 1
  /\ rec' = [rec EXCEPT !.dna = Append(@, TokY)]
  /\ varied' = TRUE
  /\ UNCHANGED <<path, frames, rng, clock>>
  /\ UNCHANGED careVars
  /\ UNCHANGED hashVars
  /\ UNCHANGED adviceVars

\* between the two evaluations: the same record for an Oak instead of a Pine
VarySpecies ==
  /\ Len(frames) = 1 /\ ~varied
  /\ hasHistory(rec)
  /\ rec.species = PINE
  /\ rec' = [rec EXCEPT !.species = OAK]
  /\ varied' = TRUE
  /\ UNCHANGED <<path, frames, rng, clock>>
  /\ UNCHANGED careVars
  /\ UNCHANGED hashVars
  /\ UNCHANGED adviceVars

GenNext ==
  Render3D \/ Render2D \/ VaryPrune \/ VaryWire \/ VaryHistory \/ VarySpecies

GenSpec == GenInit /\ [][GenNext]_vars

(***************************************************************************)
(* Hash runs: cyrb53 and the float derived from it, on one string          *)
(***************************************************************************)

MaxText == 3       \* the strings hashed on their own have at most MaxText characters

\* char codes of the strings hashed on their own: "-", "0", "X", "e" with an
\* acute accent and the largest UTF-16 code unit
TextCodes == {45, 48, 88, 233, 65535}

\* the strings hashed on their own: every string over TextCodes of at most
\* MaxText characters, and every key the generators can form
Texts == UNION {[1..n -> TextCodes] : n \in 0..MaxText} \cup HashKeys

HashInit ==
  /\ CareIdle
  /\ AdviceIdle
  /\ rec = [species |-> PINE, stage |-> SEED, dna |-> <<TokX>>,
            pruningCount |-> 0, wiringState |-> 0,
            age |-> 0, water |-> 500, fertilizer |-> 500, health |-> 1000]
  /\ path = "3D"
  /\ frames = <<>>
  /\ varied = FALSE
  /\ rng = 0
  /\ clock = 0
  /\ text \in Texts
  /\ digest = <<>>

\* val = cyrb53(text) and the float (val % 1000) / 1000 of the accessors
HashCall ==
  /\ digest = <<>>
  /\ digest' = <<cyrb53(text), HashMod1000(cyrb53(text))>>
  /\ UNCHANGED text
  /\ UNCHANGED careVars
  /\ UNCHANGED genVars
  /\ UNCHANGED adviceVars

HashNext == HashCall

HashSpec == HashInit /\ [][HashNext]_vars

(***************************************************************************)
(* The care loop (App).  Vitals (water, fertilizer, health) and age are    *)
(* kept in tenths, so that a tick's 0.5, 0.2 and 0.1 are integers.         *)
(* seedValue and createdAt of a tree are written once and never read; they *)
(* are left out.  Tree ids, drawn from Math.random() in the code, are      *)
(* taken to be distinct: the n-th tree of the inventory has id n.          *)
(***************************************************************************)

MAX_STATS    == 100
CRITICAL_LOW == 20

MaxTrees   == 2    \* at most MaxTrees trees are created
MaxEvents  == 3    \* at most MaxEvents ticks and handler calls happen
MaxPending == 2    \* at most MaxPending events are handled between two renders

\* a value of the code as a number of tenths
Tenths(x) == x * 10

\* the texts Math.random().toString(36) may give after "0.": "AB12XY", "7k"
RandomTexts == {<<97, 98, 49, 50, 120, 121>>, <<55, 107>>}

\* String.prototype.toUpperCase on digits and ASCII letters
toUpperCase(str) ==
  [i \in 1..Len(str) |-> IF str[i] >= 97 /\ str[i] <= 122 THEN str[i] - 32 ELSE str[i]]

\* text.substring(2, 2 + n) of the text "0." \o frac
substring2(frac, n) == SubSeq(frac, 1, Min(n, Len(frac)))

RECURSIVE toString16(_)
\* Number.prototype.toString(16) of a natural
toString16(n) ==
  LET digit(d) == IF d < 10 THEN 48 + d ELSE 87 + d
  IN  IF n < 16 THEN <<digit(n)>> ELSE toString16(n \div 16) \o <<digit(n % 16)>>

\* a text left as it is, whatever its length
padStartNone(str) == str

\* String.prototype.padStart(2, '0')
padStart2(str) == IF Len(str) < 2 THEN <<48>> \o str ELSE str

\* species.substring(0, 3).toUpperCase()
speciesPrefix(species) ==
  CASE species = PINE   -> <<80, 73, 78>>
    [] species = MAPLE  -> <<77, 65, 80>>
    [] species = CHERRY -> <<67, 72, 69>>
    [] species = OAK    -> <<79, 65, 75>>

\* generateDNASegment(prefix) without stats: `${prefix}-${random}`, where
\* frac is the text of Math.random().toString(36) after "0."
generateSeedSegment(prefix, frac) ==
  prefix \o <<45>> \o toUpperCase(substring2(frac, 4))

\* generateDNASegment(prefix, stats): `EVO-${h}${w}${f}-${rnd}`
generateEvoSegment(stats, frac) ==
  <<69, 86, 79, 45>>
    \o padStart2(toUpperCase(toString16(stats.health \div 10)))
    \o padStart2(toUpperCase(toString16(stats.water \div 10)))
    \o padStart2(toUpperCase(toString16(stats.fertilizer \div 10)))
    \o <<45>> \o toUpperCase(substring2(frac, 2))

\* the name a new tree gets: `My ${species}`
defaultName(species) ==
  CASE species = PINE   -> "My Pine"
    [] species = MAPLE  -> "My Maple"
    [] species = CHERRY -> "My Cherry"
    [] species = OAK    -> "My Oak"

\* newTree of handleCreateTree
newTree(id, species, frac) ==
  [id |-> id, species |-> species, stage |-> SEED, age |-> 0,
   water |-> Tenths(50), fertilizer |-> Tenths(50), health |-> Tenths(100),
   pruningCount |-> 0, wiringState |-> 0,
   dna |-> <<generateSeedSegment(speciesPrefix(species), frac)>>,
   name |-> defaultName(species)]

\* activeTree as derived from the state v: inventory.find(...) || null, as a
\* sequence of at most one tree
activeTree(v) ==
  LET hits == {i \in 1..Len(v.inventory) : v.inventory[i].id = v.activeTreeId}
  IN  IF hits = {} THEN <<>>
      ELSE <<v.inventory[CHOOSE i \in hits : \A j \in hits : i <= j]>>

\* the inventory after updateActiveTree(updater), where updated[i] is what
\* the updater makes of the i-th tree of the latest inventory: the closure's
\* activeTreeId is the rendered one, the updater runs on the latest inventory
updateActiveTree(updated) ==
  IF view.activeTreeId = 0 THEN inventory
  ELSE [i \in 1..Len(inventory) |->
          IF inventory[i].id = view.activeTreeId THEN updated[i]
          ELSE inventory[i]]

\* the body of the interval callback for one tree
tickTree(tree) ==
  LET newHealth ==
        IF tree.water < Tenths(CRITICAL_LOW) \/ tree.fertilizer < Tenths(CRITICAL_LOW)
        THEN Max(0, tree.health - 5)
        ELSE IF tree.water > Tenths(50) /\ tree.fertilizer > Tenths(50)
        THEN Min(Tenths(MAX_STATS), tree.health + 1)
        ELSE tree.health
  IN  [tree EXCEPT !.water = Max(0, tree.water - 5),
                   !.fertilizer = Max(0, tree.fertilizer - 2),
                   !.health = newHealth,
                   !.age = tree.age + 1]

\* an updater whose new segment replaces the history (for append-only)
advanceUpdaterReplacing(t, nextStage, newDNA) ==
  [t EXCEPT !.stage = nextStage, !.dna = <<newDNA>>]

\* the updater of handleAdvanceStage
advanceUpdater(t, nextStage, newDNA) ==
  [t EXCEPT !.stage = nextStage, !.dna = Append(t.dna, newDNA)]

\* minAge of handleAdvanceStage, in tenths
minAgeNone(stage) == 0

minAge(stage) ==
  IF stage = SEED THEN Tenths(1) ELSE IF stage = SAPLING THEN Tenths(15) ELSE 0

\* handleAdvanceStage passes its guards on the rendered tree t
advanceAccepted(t) ==
  /\ t.health >= Tenths(80)
  /\ t.age >= minAge(t.stage)
  /\ t.stage + 1 <= MASTER

\* Gardens found in localStorage at start, each saved by an earlier run:
\* no garden; a seed ticked 9 times; a sapling advanced at age 1.0 (water
\* 45.0, fertilizer 48.0), watered at ticks 41 and 101, fertilized at tick
\* 101 and now 14.9 old; a seed left alone for 110 ticks; an adult with the
\* same care, advanced again at age 16.0 (water 30.0, fertilizer 48.0), wired
\* four times and now 16.2 old; a seed left alone for 80 ticks and then
\* fertilized once.
SavedTrees ==
  { [newTree(1, PINE, <<97, 98, 49, 50, 120, 121>>)
       EXCEPT !.age = 9, !.water = 455, !.fertilizer = 482],
    [newTree(1, MAPLE, <<55, 107>>)
       EXCEPT !.stage = SAPLING, !.age = 149, !.water = 355, !.fertilizer = 502,
              !.dna = Append(@, generateEvoSegment(
                                  [health |-> 1000, water |-> 450, fertilizer |-> 480],
                                  <<55, 107>>))],
    [newTree(1, OAK, <<55, 107>>)
       EXCEPT !.age = 110, !.water = 0, !.fertilizer = 280, !.health = 755],
    [newTree(1, CHERRY, <<55, 107>>)
       EXCEPT !.stage = ADULT, !.age = 162, !.water = 290, !.fertilizer = 476,
              !.wiringState = 4,
              !.dna = @ \o <<generateEvoSegment(
                                 [health |-> 1000, water |-> 450, fertilizer |-> 480],
                                 <<55, 107>>),
                               generateEvoSegment(
                                 [health |-> 1000, water |-> 300, fertilizer |-> 480],
                                 <<97, 98, 49, 50, 120, 121>>)>>],
    [newTree(1, CHERRY, <<97, 98, 49, 50, 120, 121>>)
       EXCEPT !.age = 80, !.water = 100, !.fertilizer = 640, !.health = 905] }

\* the generator at rest while the care loop runs
GenIdle ==
  /\ rec = [species |-> PINE, stage |-> SEED, dna |-> <<TokX>>,
            pruningCount |-> 0, wiringState |-> 0,
            age |-> 0, water |-> 500, fertilizer |-> 500, health |-> 1000]
  /\ path = "3D"
  /\ frames = <<>>
  /\ varied = FALSE
  /\ rng = 0
  /\ clock = 0

\* the useState initialisers of App and the first render
Init ==
  /\ GenIdle
  /\ HashIdle
  /\ AdviceIdle
  /\ \/ inventory = <<>> /\ activeTreeId = 0
     \/ \E t \in SavedTrees : inventory = <<t>> /\ activeTreeId = t.id
  /\ view = [inventory |-> inventory, activeTreeId |-> activeTreeId]
  /\ advice = "none"
  /\ pending = 0
  /\ events = 0

\* an event is handled before the next render
Handled ==
  /\ pending < MaxPending
  /\ pending' = pending + 1
  /\ events < MaxEvents
  /\ events' = events + 1
  /\ UNCHANGED view
  /\ UNCHANGED genVars
  /\ UNCHANGED hashVars
  /\ UNCHANGED adviceVars

\* React renders: the closures of the handlers and of the interval now see
\* the latest state
Render ==
  /\ pending > 0
  /\ view' = [inventory |-> inventory, activeTreeId |-> activeTreeId]
  /\ pending' = 0
  /\ UNCHANGED <<inventory, activeTreeId, advice, events>>
  /\ UNCHANGED genVars
  /\ UNCHANGED hashVars
  /\ UNCHANGED adviceVars

\* the interval callback of the game loop
Tick ==
  /\ view.activeTreeId # 0
  /\ inventory' = [i \in 1..Len(inventory) |->
                     IF inventory[i].id # view.activeTreeId THEN inventory[i]
                     ELSE tickTree(inventory[i])]
  /\ UNCHANGED <<activeTreeId, advice>>
  /\ Handled

handleCreateTree ==
  /\ Len(inventory) < MaxTrees
  /\ \E species \in TreeSpecies, frac \in RandomTexts :
       inventory' = Append(inventory, newTree(Len(inventory) + 1, species, frac))
  /\ activeTreeId' = Len(inventory) + 1
  /\ advice' = "A new life begins. Keep the soil moist."
  /\ Handled

\* an updater that adds the water without a cap
waterUpdaterUncapped(t) == [t EXCEPT !.water = t.water + Tenths(30)]

\* the updater of handleWater
waterUpdater(t) == [t EXCEPT !.water = Min(Tenths(MAX_STATS), t.water + Tenths(30))]

handleWater ==
  /\ inventory' = updateActiveTree([i \in 1..Len(inventory) |-> waterUpdater(inventory[i])])
  /\ UNCHANGED <<activeTreeId, advice>>
  /\ Handled

\* the updater of handleFertilize
fertilizeUpdater(t) ==
  [t EXCEPT !.fertilizer = Min(Tenths(MAX_STATS), t.fertilizer + Tenths(30))]

handleFertilize ==
  /\ inventory' =
       updateActiveTree([i \in 1..Len(inventory) |-> fertilizeUpdater(inventory[i])])
  /\ UNCHANGED <<activeTreeId, advice>>
  /\ Handled

\* handlePrune passes its guard on the rendered tree
pruneAccepted == activeTree(view) # <<>> /\ activeTree(view)[1].stage >= SAPLING

\* the updater of handlePrune
pruneUpdater(t) == [t EXCEPT !.pruningCount = t.pruningCount + 1]

handlePrune ==
  /\ inventory' =
       IF ~pruneAccepted THEN inventory
       ELSE updateActiveTree([i \in 1..Len(inventory) |-> pruneUpdater(inventory[i])])
  /\ UNCHANGED <<activeTreeId, advice>>
  /\ Handled

\* a wire guard with the stage bound of handlePrune
wireAcceptedFromSapling ==
  activeTree(view) # <<>> /\ activeTree(view)[1].stage >= SAPLING

\* handleWire passes its guard on the rendered tree
wireAccepted == activeTree(view) # <<>> /\ activeTree(view)[1].stage >= ADULT

\* an updater that counts the wire actions without the modulus
wireUpdaterUnbounded(t) == [t EXCEPT !.wiringState = t.wiringState + 1]

\* the updater of handleWire
wireUpdater(t) == [t EXCEPT !.wiringState = (t.wiringState + 1) % 5]

handleWire ==
  /\ inventory' =
       IF ~wireAccepted THEN inventory
       ELSE updateActiveTree([i \in 1..Len(inventory) |-> wireUpdater(inventory[i])])
  /\ UNCHANGED <<activeTreeId, advice>>
  /\ Handled

handleAdvanceStage ==
  /\ \E frac \in RandomTexts :
       IF activeTree(view) = <<>>
       THEN UNCHANGED <<inventory, advice>>
       ELSE LET tree == activeTree(view)[1] IN
            IF tree.health < Tenths(80)
            THEN /\ advice' = "The tree is too weak to be repotted."
                 /\ UNCHANGED inventory
            ELSE IF tree.age < minAge(tree.stage)
            THEN /\ advice' = IF tree.stage = SEED
                             THEN "The tree is not yet ready. Patience. (Needs Age 1)"
                             ELSE "The tree is not yet ready. Patience. (Needs Age 15)"
                 /\ UNCHANGED inventory
            ELSE IF tree.stage + 1 > MASTER
            THEN UNCHANGED <<inventory, advice>>
            ELSE /\ inventory' = updateActiveTree(
                       [i \in 1..Len(inventory) |->
                          advanceUpdater(inventory[i], tree.stage + 1,
                            generateEvoSegment(
                              [health |-> tree.health, water |-> tree.water,
                               fertilizer |-> tree.fertilizer], frac))])
                 /\ advice' = "The roots spread deeper into the earth."
  /\ UNCHANGED activeTreeId
  /\ Handled

\* tempName.trim() for the texts typed into the name field
trim(str) == IF str = "  " THEN "" ELSE str

handleSaveName ==
  /\ \E tempName \in {"Bonsai", "  "} :
       inventory' =
         IF activeTree(view) # <<>> /\ trim(tempName) # ""
         THEN updateActiveTree(
                [i \in 1..Len(inventory) |-> [inventory[i] EXCEPT !.name = trim(tempName)]])
         ELSE inventory
  /\ UNCHANGED <<activeTreeId, advice>>
  /\ Handled

\* a tree of the rendered garden list is clicked: setActiveTreeId(t.id)
SelectTree ==
  /\ \E i \in 1..Len(view.inventory) : activeTreeId' = view.inventory[i].id
  /\ UNCHANGED <<inventory, advice>>
  /\ Handled

\* the garden button: setActiveTreeId(null)
BackToGarden ==
  /\ activeTreeId' = 0
  /\ UNCHANGED <<inventory, advice>>
  /\ Handled

Next ==
  \/ Render
  \/ Tick
  \/ handleCreateTree
  \/ handleWater
  \/ handleFertilize
  \/ handlePrune
  \/ handleWire
  \/ handleAdvanceStage
  \/ handleSaveName
  \/ SelectTree
  \/ BackToGarden

Spec == Init /\ [][Next]_vars

(***************************************************************************)
(* The Master Gardener: handleConsult and getMasterGardenerAdvice.  A      *)
(* consultation writes the advice text and the loading flag only, which no *)
(* other handler reads, so it is followed in a specification of its own,   *)
(* with the game loop running beside it.  Texts are sequences of char      *)
(* codes.                                                                  *)
(***************************************************************************)

\* the code points String.prototype.trim removes (WhiteSpace and
\* LineTerminator of ECMAScript)
WhiteSpace ==
  {9, 10, 11, 12, 13, 32, 160, 5760, 8232, 8233, 8239, 8287, 12288, 65279}
    \cup (8192..8202)

RECURSIVE trimStart(_)
trimStart(str) ==
  IF str # <<>> /\ Head(str) \in WhiteSpace THEN trimStart(Tail(str)) ELSE str

RECURSIVE trimEnd(_)
trimEnd(str) ==
  IF str # <<>> /\ str[Len(str)] \in WhiteSpace
  THEN trimEnd(SubSeq(str, 1, Len(str) - 1))
  ELSE str

\* String.prototype.trim on response.text
trimText(str) == trimEnd(trimStart(str))

\* "The spirits are silent. (API Key missing)"
KeyMissingAdvice ==
  <<84, 104, 101, 32, 115, 112, 105, 114, 105, 116, 115, 32, 97, 114, 101,
    32, 115, 105, 108, 101, 110, 116, 46, 32, 40, 65, 80, 73, 32, 75, 101,
    121, 32, 109, 105, 115, 115, 105, 110, 103, 41>>

\* "The wind drowns out the master's voice. Try again later."
FallbackAdvice ==
  <<84, 104, 101, 32, 119, 105, 110, 100, 32, 100, 114, 111, 119, 110, 115,
    32, 111, 117, 116, 32, 116, 104, 101, 32, 109, 97, 115, 116, 101, 114,
    39, 115, 32, 118, 111, 105, 99, 101, 46, 32, 84, 114, 121, 32, 97, 103,
    97, 105, 110, 32, 108, 97, 116, 101, 114, 46>>

\* process.env.API_KEY as the build leaves it: undefined, the empty string or
\* a key, as a sequence of at most one string
ApiKeys == {<<>>, <<"">>, <<"key">>}

\* response.text as the service may send it: " \nWater.\r\n", "Be  still",
\* a tab and a space, the empty string
ReplyTexts ==
  {<<32, 10, 87, 97, 116, 101, 114, 46, 13, 10>>,
   <<66, 101, 32, 32, 115, 116, 105, 108, 108>>,
   <<9, 32>>,
   <<>>}

\* what the SDK does in a run: new GoogleGenAI throws, generateContent
\* rejects, the response carries no text (response.text is undefined and
\* .trim() throws), or the response carries a text
ServiceOutcomes ==
  {[kind |-> k, text |-> <<>>] : k \in {"constructorThrows", "rejects", "noText"}}
    \cup {[kind |-> "text", text |-> t] : t \in ReplyTexts}

\* !apiKey
keyMissing == apiKey = <<>> \/ apiKey = <<"">>

\* the try block from the await on: what it returns, or that it throws
readResponse(outcome) ==
  IF outcome.kind = "text"
  THEN [thrown |-> FALSE, value |-> trimText(outcome.text)]
  ELSE [thrown |-> TRUE, value |-> <<>>]

\* the promise of an async function whose try block has no catch
adviceNoCatch(r, tree) ==
  [state |-> IF r.thrown THEN "rejected" ELSE "fulfilled",
   value |-> r.value, tree |-> tree]

\* the promise of getMasterGardenerAdvice once its try block has run as r:
\* the catch block returns the fallback
adviceCatch(r, tree) ==
  [state |-> "fulfilled",
   value |-> IF r.thrown THEN FallbackAdvice ELSE r.value,
   tree |-> tree]

\* the state of a run in which the Master Gardener may be consulted
AdviceInit ==
  /\ GenIdle
  /\ HashIdle
  /\ \/ inventory = <<>> /\ activeTreeId = 0
     \/ \E t \in SavedTrees : inventory = <<t>> /\ activeTreeId = t.id
  /\ view = [inventory |-> inventory, activeTreeId |-> activeTreeId]
  /\ advice = "none"
  /\ pending = 0
  /\ events = 0
  /\ apiKey \in ApiKeys
  /\ service \in ServiceOutcomes
  /\ promise = [state |-> "none", value |-> <<>>, tree |-> <<>>]
  /\ isLoadingAdvice = FALSE
  /\ requests = 0

\* handleConsult up to its await: getMasterGardenerAdvice runs up to its own
\* await, or to its return when it makes no request
handleConsult ==
  /\ promise.state = "none"
  /\ IF activeTree(view) = <<>>
     THEN UNCHANGED <<promise, isLoadingAdvice, requests>>
     ELSE /\ isLoadingAdvice' = TRUE
          /\ IF keyMissing
             THEN /\ promise' = [state |-> "fulfilled", value |-> KeyMissingAdvice,
                                 tree |-> activeTree(view)]
                  /\ UNCHANGED requests
             ELSE IF service.kind = "constructorThrows"
             THEN /\ promise' = adviceCatch([thrown |-> TRUE, value |-> <<>>],
                                            activeTree(view))
                  /\ UNCHANGED requests
             ELSE /\ promise' = [state |-> "pending", value |-> <<>>,
                                 tree |-> activeTree(view)]
                  /\ requests' = requests + 1
  /\ pending < MaxPending
  /\ pending' = pending + 1
  /\ events < MaxEvents
  /\ events' = events + 1
  /\ UNCHANGED <<inventory, activeTreeId, view, advice, apiKey, service>>
  /\ UNCHANGED genVars
  /\ UNCHANGED hashVars

\* the request settles and getMasterGardenerAdvice runs from its await to
\* its return
generateContentSettles ==
  /\ promise.state = "pending"
  /\ promise' = adviceCatch(readResponse(service), promise.tree)
  /\ UNCHANGED <<apiKey, service, isLoadingAdvice, requests>>
  /\ UNCHANGED careVars
  /\ UNCHANGED genVars
  /\ UNCHANGED hashVars

\* handleConsult from its await on: a rejection would leave it there
handleConsultResume ==
  /\ promise.state \in {"fulfilled", "rejected"}
  /\ IF promise.state = "fulfilled"
     THEN /\ advice' = promise.value
          /\ isLoadingAdvice' = FALSE
     ELSE UNCHANGED <<advice, isLoadingAdvice>>
  /\ promise' = [state |-> "none", value |-> <<>>, tree |-> <<>>]
  /\ pending' = Min(MaxPending, pending + 1)
  /\ UNCHANGED <<inventory, activeTreeId, view, events, apiKey, service, requests>>
  /\ UNCHANGED genVars
  /\ UNCHANGED hashVars

AdviceNext ==
  \/ handleConsult
  \/ generateContentSettles
  \/ handleConsultResume
  \/ Render
  \/ Tick

AdviceSpec == AdviceInit /\ [][AdviceNext]_vars

(***************************************************************************)
(* Properties of the generator                                             *)
(***************************************************************************)

\* two evaluations have been made
TwoFrames == Len(frames) = 2

\* the dna the generator of frame f was handed
DnaOf(f) == IF path = "3D" THEN dna3D(f.rec) ELSE dna2D(f.rec)

\* the string hashed by the draw d of a node of frame f
DrawKey(f, d) ==
  IF path = "3D" THEN Key3D(DnaOf(f), d[1], d[2]) ELSE Key2D(DnaOf(f), d[1])

\* the key of the parent of the call with key k
ParentKey(k) == IF path = "3D" THEN k \div 2 ELSE k \div 4

\* the Branch / drawBranch calls of frame f
Calls(f) == f.out.nodes \cup f.out.omitted

\* C1: two evaluations of the generator on the same record (species, stage,
\* dna, pruningCount, wiringState) give the same output: the same nodes with
\* the same lengths, radii and angles, the same leaves with the same
\* appearance.
C1_Determinism ==
  (TwoFrames /\ frames[1].rec = frames[2].rec) => frames[1].out = frames[2].out

\* the claimed depth bounds, by path and stage
C2_Complexity(p, stage) ==
  IF p = "3D" THEN <<0, 3, 5, 7>>[stage + 1] ELSE <<0, 4, 7, 9>>[stage + 1]

\* C2: no generated node is deeper than complexity(stage) (3D 0/3/5/7, 2D
\* 0/4/7/9), and at stage SEED there is no branch node and no Branch or
\* drawBranch call, only the seed visual.
C2_DepthBound ==
  \A i \in 1..Len(frames) :
    /\ \A n \in Calls(frames[i]) : n.depth <= C2_Complexity(path, frames[i].rec.stage)
    /\ frames[i].rec.stage = SEED =>
         (Calls(frames[i]) = {} /\ frames[i].out.seed # <<>>)

\* a MASTER tree has been generated and has a node at the full depth
C2_Witness ==
  /\ Len(frames) >= 1
  /\ frames[1].rec.stage = MASTER
  /\ \E n \in frames[1].out.nodes : n.depth = C2_Complexity(path, MASTER)

\* C3: pruning omits one node at a time: the survival of a node at depth > 1
\* is decided by its own, separately keyed draw, so a node that is omitted
\* leaves its sibling to a test of a different key.
C3_OneNodeAtATime ==
  \A i \in 1..Len(frames) :
    \A o \in frames[i].out.omitted :
      \A c \in Calls(frames[i]) :
        (c.key # o.key /\ ParentKey(c.key) = ParentKey(o.key)) =>
          DrawKey(frames[i], c.pruneDraw) # DrawKey(frames[i], o.pruneDraw)

\* the second evaluation is of the first one's record after one more prune
PruneStep ==
  /\ TwoFrames
  /\ frames[2].rec = [frames[1].rec EXCEPT !.pruningCount = @ + 1]

\* the nodes of frame f of depth at most d
UpTo(f, d) == {n \in f.out.nodes : n.depth <= d}

\* C4: generating with pruningCount N and with N + 1, all else equal, gives
\* trees that agree on every node of depth <= 1 (existence, length, radius,
\* rotation).
C4_PruningReroll == PruneStep => UpTo(frames[1], 1) = UpTo(frames[2], 1)

\* one more prune has changed which subtrees of the tree are omitted
C4_Witness ==
  /\ PruneStep
  /\ frames[1].out.omitted # {}
  /\ frames[2].out.omitted # {}
  /\ {n.key : n \in frames[1].out.nodes} # {n.key : n \in frames[2].out.nodes}

\* C5: for every node with at least two children, the hash keys that drive
\* the children's angle, length decay and survival include the branch index:
\* no two siblings draw from the same key for the same decision.
C5_SiblingDecorrelation ==
  \A i \in 1..Len(frames) :
    \A a, b \in Calls(frames[i]) :
      (a.key # b.key /\ a.depth > (IF path = "3D" THEN 0 ELSE 1)
         /\ ParentKey(a.key) = ParentKey(b.key)) =>
        /\ DrawKey(frames[i], a.angleDraw) # DrawKey(frames[i], b.angleDraw)
        /\ DrawKey(frames[i], a.decayDraw) # DrawKey(frames[i], b.decayDraw)
        /\ (path = "3D" /\ a.depth > 1) =>
             DrawKey(frames[i], a.pruneDraw) # DrawKey(frames[i], b.pruneDraw)

\* the segment the specification selects at depth: dna[floor(depth / K) mod len]
C6_Segment(dna, depth, K) == dna[((depth \div K) % Len(dna)) + 1]

\* C6: for a non-empty history the accessor of a node at a given depth uses
\* the segment dna[floor(depth / K) mod len(dna)], K = 2 in the 3D path and
\* the larger stride (10) over the node depth in the 2D path.
C6_SegmentSelection ==
  \A i \in 1..Len(frames) :
    \A n \in frames[i].out.nodes :
      DnaOf(frames[i]) # <<>> =>
        IF path = "3D"
        THEN segment3D(DnaOf(frames[i]), n.depth) = C6_Segment(DnaOf(frames[i]), n.depth, 2)
        ELSE segment2D(DnaOf(frames[i]), n.cursor + 1)
               = C6_Segment(DnaOf(frames[i]), n.depth, 10)

\* the stride K of the path
C7_Stride == IF path = "3D" THEN 2 ELSE 10

\* C7: at stage ADULT the trees generated from [X] and from [X, Y], all else
\* equal, are identical at every node of depth < K, and the hash keys used at
\* depth K and beyond differ.
C7_PrefixStability ==
  (/\ TwoFrames
   /\ frames[1].rec.stage = ADULT
   /\ DnaOf(frames[1]) = <<TokX>>
   /\ frames[2].rec = [frames[1].rec EXCEPT !.dna = <<TokX, TokY>>])
  => /\ {n \in frames[1].out.nodes : n.depth < C7_Stride}
          = {n \in frames[2].out.nodes : n.depth < C7_Stride}
     /\ \A n \in frames[2].out.nodes :
          (n.depth >= C7_Stride /\ path = "3D") =>
            Key3D(<<TokX>>, n.depth, 100) # Key3D(<<TokX, TokY>>, n.depth, 100)

\* C12: an evaluation of the generator, on either path, leaves every field
\* of the record it is given as it was (species, stage, dna, pruningCount,
\* wiringState, age and vitals), and the record it read is that record
C12_ReadOnly ==
  [][ Len(frames') > Len(frames)
        => /\ rec' = rec
           /\ frames'[Len(frames')].rec = rec
           /\ DOMAIN rec' = DOMAIN rec
           /\ \A fld \in DOMAIN rec : rec'[fld] = rec[fld] ]_vars

\* a record with a two-segment history has been evaluated twice, as a tree
C12_Witness ==
  /\ Len(frames) = 2
  /\ hasHistory(rec)
  /\ Len(rec.dna) = 2
  /\ frames[1].rec = rec /\ frames[2].rec = rec
  /\ frames[2].out.nodes # {}

\* the second evaluation is of the first one's record after one more wire
WireStep ==
  /\ TwoFrames
  /\ frames[2].rec = [frames[1].rec EXCEPT !.wiringState = (@ + 1) % 5]

\* the call n with its branching angle shifted by shift; the root call (key
\* 1) branches off nothing.  Of a leaf of the 2D path only its presence is
\* kept, not its Math.random() draws.
Sheared(n, shift) ==
  IF path = "3D"
  THEN [n EXCEPT !.rotZ = IF n.key = 1 THEN @ ELSE @ + shift]
  ELSE [n EXCEPT !.angle = IF n.key = 1 THEN @ ELSE @ + shift,
                 !.leaf = IF @ = <<>> THEN <<>> ELSE <<0, "leaf">>]

\* C13: on both paths, generating with wiringState w and with w', all else
\* equal, gives the same tree (node set, lengths, radii, foliage) except that
\* the branching angle of every branch at every depth is shifted by exactly
\* 0.2 * (w' - w) radians.
C13_UniformShear ==
  WireStep =>
    LET shift == 2000 * (frames[2].rec.wiringState - frames[1].rec.wiringState)
    IN  /\ {Sheared(n, shift) : n \in frames[1].out.nodes}
             = {Sheared(n, 0) : n \in frames[2].out.nodes}
        /\ {Sheared(n, shift) : n \in frames[1].out.omitted}
             = {Sheared(n, 0) : n \in frames[2].out.omitted}

\* the rendered children of the node n of frame f
Children(f, n) == {c \in f.out.nodes : c.key # n.key /\ ParentKey(c.key) = n.key}

\* C14: in the 3D path a rendered node carries foliage if it is terminal
\* (depth >= maxDepth) or has no children; a terminal node has no children,
\* and no node that has children carries foliage.
C14_FoliagePlacement ==
  path = "3D" =>
    \A i \in 1..Len(frames) :
      \A n \in frames[i].out.nodes :
        /\ (n.depth >= complexity3D(frames[i].rec.stage)
               \/ Children(frames[i], n) = {}) => n.foliage
        /\ n.depth >= complexity3D(frames[i].rec.stage) => Children(frames[i], n) = {}
        /\ Children(frames[i], n) # {} => ~n.foliage

\* the call of frame f that made the call n
Parent(f, n) == CHOOSE q \in Calls(f) : q.key = ParentKey(n.key)

\* C15: every rendered node other than the root is shorter than its parent,
\* by a factor in [0.75, 0.85) in the 3D path and [0.7, 0.8) in the 2D path
\* (lengths are whole numbers of the unit, rounded down); in the 3D path its
\* radius is 0.7 times its parent's radius, rounded down, and smaller.  In the
\* 2D path the parent's length is the callerLen the node carries, which is
\* its parent's length.
C15_DecayMonotone ==
  \A i \in 1..Len(frames) :
    \A n \in frames[i].out.nodes :
      n.key # 1 =>
        IF path = "3D"
        THEN LET parent == Parent(frames[i], n)
             IN  /\ n.length < parent.length
                 /\ 10000 * (n.length + 1) > 7500 * parent.length
                 /\ 10000 * n.length < 8500 * parent.length
                 /\ n.radius < parent.radius
                 /\ 10 * n.radius <= 7 * parent.radius
                 /\ 10 * (n.radius + 1) > 7 * parent.radius
        ELSE /\ n.length < n.callerLen[1]
             /\ 10000 * (n.length + 1) > 7000 * n.callerLen[1]
             /\ 10000 * n.length < 8000 * n.callerLen[1]
             /\ frames[i].rec.stage < MASTER =>
                  n.callerLen[1] = Parent(frames[i], n).length

\* a MASTER tree has been generated on the path, down to its deepest level
C15_Witness ==
  /\ Len(frames) >= 1
  /\ frames[1].rec.stage = MASTER
  /\ \E n \in frames[1].out.nodes :
       /\ n.depth >= 6
       /\ n.length > 0
       /\ path = "3D" => n.radius > 0

\* the second evaluation is of the first one's record as an Oak, the first
\* one's as a Pine
SpeciesStep ==
  /\ TwoFrames
  /\ frames[1].rec.species = PINE
  /\ frames[2].rec = [frames[1].rec EXCEPT !.species = OAK]

\* the angular spread between the children of the node n: the widest angle
\* between two of them
Spread(n) ==
  LET gaps == {n.childAngles[i] - n.childAngles[j] : i, j \in DOMAIN n.childAngles}
  IN  CHOOSE g \in gaps : \A h \in gaps : h <= g

\* C16: for two records that differ only in species, Pine and Oak, every
\* branching node of the Pine tree has a strictly narrower angular spread
\* between its children than the corresponding node of the Oak tree.
C16_SpeciesSpread ==
  SpeciesStep =>
    \A a \in frames[1].out.nodes :
      \A b \in frames[2].out.nodes :
        (a.key = b.key /\ a.childCount >= 2 /\ b.childCount >= 2) =>
          Spread(a) < Spread(b)

\* C17: for a record past SEED with pruningCount 0 and wiringState 0,
\* whatever its history, the deepest rendered node of the generated tree has
\* depth exactly complexity(stage).
C17_FullDepth ==
  \A i \in 1..Len(frames) :
    (/\ frames[i].rec.stage # SEED
     /\ frames[i].rec.pruningCount = 0
     /\ frames[i].rec.wiringState = 0)
    => /\ \E n \in frames[i].out.nodes :
            n.depth = C2_Complexity(path, frames[i].rec.stage)
       /\ \A n \in frames[i].out.nodes :
            n.depth <= C2_Complexity(path, frames[i].rec.stage)

RECURSIVE KeyDepth(_)
\* the number of calls above the call with key k
KeyDepth(k) == IF k <= 1 THEN 0 ELSE 1 + KeyDepth(ParentKey(k))

RECURSIVE GeometricSum(_, _)
\* 1 + fanOut + ... + fanOut^(levels - 1)
GeometricSum(fanOut, levels) ==
  IF levels = 0 THEN 0 ELSE 1 + (fanOut * GeometricSum(fanOut, levels - 1))

\* C19: every evaluation ends with a finite set of calls: each call is one
\* level deeper than the call that made it, no call is deeper than maxDepth
\* (at most 7 in the 3D path, 9 in the 2D path), a call has 0 or 2 children
\* in the 3D path, both rendered or both not, and, in the 2D path, 2 or 3 above maxDepth and none at
\* maxDepth, and the number of calls is at most the geometric series of the
\* fan-out (2, 3) over the levels (maxDepth + 1 from depth 0, maxDepth from
\* depth 1).
C19_BoundedSize ==
  \A i \in 1..Len(frames) :
    LET maxDepth == C2_Complexity(path, frames[i].rec.stage)
        calls    == Calls(frames[i])
        rendered == {n.key : n \in frames[i].out.nodes}
    IN  /\ IsFiniteSet(calls)
        /\ maxDepth <= (IF path = "3D" THEN 7 ELSE 9)
        /\ \A n \in calls :
             /\ n.depth <= maxDepth
             /\ n.depth = (IF path = "3D" THEN 0 ELSE 1) + KeyDepth(n.key)
             /\ n.childCount = Len(n.childAngles)
             /\ IF path = "3D"
                THEN /\ n.childCount \in {0, 2}
                     /\ Cardinality({2 * n.key, (2 * n.key) + 1} \cap rendered)
                          \in {0, 2}
                ELSE n.childCount \in (IF n.depth < maxDepth THEN {2, 3} ELSE {0})
        /\ Cardinality(calls) <=
             (IF path = "3D" THEN GeometricSum(2, maxDepth + 1)
              ELSE GeometricSum(3, maxDepth))

\* a MASTER tree of the 2D path has been drawn down to depth 9, with nodes of
\* two and of three children
C19_Witness ==
  /\ Len(frames) >= 1
  /\ path = "2D"
  /\ frames[1].rec.stage = MASTER
  /\ \E n \in frames[1].out.nodes : n.depth = 9
  /\ \E n \in frames[1].out.nodes : n.childCount = 3
  /\ \E n \in frames[1].out.nodes : n.childCount = 2

\* C20: for a record with an empty dna array or without dna field the
\* evaluation is made as for any other record, and the accessor resolves to
\* 'DEFAULT' (getDnaRandom) or 'SEED' (getDnaFloat) for the empty array and
\* to the single entry tree.species + 'INIT' (3D) or tree.species (2D) for the
\* missing field, and gives a float of 0 to 999 thousandths at every depth
\* and offset.
C20_MissingHistory ==
  \A i \in 1..Len(frames) :
    ~hasHistory(frames[i].rec) =>
      LET tree  == frames[i].rec
          dna   == DnaOf(frames[i])
          token == IF "dna" \in DOMAIN tree
                   THEN (IF path = "3D" THEN DefaultToken ELSE SeedToken)
                   ELSE speciesText(tree.species)
                          \o (IF path = "3D" THEN <<73, 78, 73, 84>> ELSE <<>>)
      IN  /\ "dna" \notin DOMAIN tree => dna = <<token>>
          /\ IF tree.stage = SEED THEN frames[i].out.seed # <<>>
             ELSE \E n \in frames[i].out.nodes : n.key = 1
          /\ IF path = "3D"
             THEN \A d \in 0..8 :
                    /\ segment3D(dna, d) = token
                    /\ \A o \in Offsets3D : getDnaRandom(dna, d, o) \in 0..999
             ELSE \A c \in Cursors2D :
                    /\ segment2D(dna, c) = token
                    /\ getDnaFloat(dna, c) \in 0..999

\* a MASTER tree has been generated from a record without dna field
C20_Witness ==
  /\ Len(frames) >= 1
  /\ "dna" \notin DOMAIN frames[1].rec
  /\ frames[1].rec.stage = MASTER
  /\ frames[1].out.nodes # {}

(***************************************************************************)
(* Properties of the hash                                                  *)
(***************************************************************************)

\* C18: for every string, cyrb53 returns 4294967296 * hi + lo with hi a
\* 21-bit number and lo a 32-bit word (two 16-bit halves), a non-negative
\* integer below 2^53; the float derived from it is (value mod 1000)
\* thousandths, a multiple of 0.001 between 0 and 0.999, and it is the float
\* the accessors get for the keys they form.
C18_HashRange ==
  digest # <<>> =>
    /\ digest[1][1] \in 0..2097151
    /\ digest[1][2][1] \in 0..65535
    /\ digest[1][2][2] \in 0..65535
    /\ digest[2] \in 0..999
    /\ digest[2] = ((((digest[1][1] % 1000) * 296) % 1000)
                      + (((digest[1][2][1] % 1000) * 536) % 1000)
                      + (digest[1][2][2] % 1000)) % 1000
    /\ text \in HashKeys => HashFloat[text] = digest[2]

\* a string of MaxText characters has been hashed to a value of more than 32
\* bits
C18_Witness ==
  /\ digest # <<>>
  /\ Len(text) = MaxText
  /\ digest[1][1] >= 1048576

(***************************************************************************)
(* Properties of the care loop                                             *)
(***************************************************************************)

\* C8: the dna of every tree is append-only: over every care-loop event its
\* earlier value is a prefix of its later value, no tree leaves the
\* inventory, and only an accepted stage advance adds an entry, exactly one,
\* at the end.
C8_AppendOnly ==
  [][/\ Len(inventory') >= Len(inventory)
     /\ \A i \in 1..Len(inventory) :
          /\ Len(inventory'[i].dna) >= Len(inventory[i].dna)
          /\ SubSeq(inventory'[i].dna, 1, Len(inventory[i].dna)) = inventory[i].dna
          /\ inventory'[i].dna # inventory[i].dna =>
               /\ Len(inventory'[i].dna) = Len(inventory[i].dna) + 1
               /\ handleAdvanceStage
               /\ activeTree(view) # <<>>
               /\ activeTree(view)[1].id = inventory[i].id
               /\ advanceAccepted(activeTree(view)[1])]_vars

\* a sapling has been advanced twice: its history has three entries
C8_Witness ==
  \E i \in 1..Len(inventory) :
    inventory[i].species = MAPLE /\ Len(inventory[i].dna) = 3

\* C9: every tree has at least one dna entry, and one entry per stage
\* transition on top of its seed entry: dna.length = stage + 1, whatever the
\* interleaving of ticks and handler calls, two advances against one
\* rendered snapshot included.
C9_OneEntryPerTransition ==
  \A i \in 1..Len(inventory) :
    /\ Len(inventory[i].dna) >= 1
    /\ Len(inventory[i].dna) = inventory[i].stage + 1

\* C10: the stage of a tree never decreases, changes only through
\* handleAdvanceStage, grows by exactly one with every accepted advance (the
\* events that append to dna) and never exceeds MASTER.
C10_StageMonotone ==
  [][\A i \in 1..Len(inventory) :
       /\ inventory'[i].stage >= inventory[i].stage
       /\ inventory'[i].stage <= MASTER
       /\ inventory'[i].stage # inventory[i].stage => handleAdvanceStage
       /\ inventory'[i].dna # inventory[i].dna =>
            inventory'[i].stage = inventory[i].stage + 1]_vars

\* C11: wiringState is always in 0..4 and pruningCount never negative; a new
\* tree starts with both 0; wiringState changes only in an accepted
\* handleWire, which makes it (wiringState + 1) mod 5 on the active tree, and
\* pruningCount changes only in an accepted handlePrune, which adds exactly 1
C11_WiringModulus ==
  [][ /\ \A i \in 1..Len(inventory) :
          inventory[i].wiringState \in 0..4 /\ inventory[i].pruningCount \in Nat
      /\ \A i \in 1..Len(inventory') :
          IF i > Len(inventory)
          THEN inventory'[i].wiringState = 0 /\ inventory'[i].pruningCount = 0
          ELSE /\ inventory'[i].wiringState \in 0..4
               /\ inventory'[i].pruningCount \in Nat
               /\ inventory'[i].wiringState # inventory[i].wiringState
                    => handleWire /\ wireAccepted
               /\ inventory'[i].pruningCount # inventory[i].pruningCount
                    => handlePrune /\ pruneAccepted
      /\ handleWire /\ wireAccepted
           => \E i \in 1..Len(inventory) :
                /\ inventory[i].id = view.activeTreeId
                /\ inventory'[i].wiringState = (inventory[i].wiringState + 1) % 5
      /\ handlePrune /\ pruneAccepted
           => \E i \in 1..Len(inventory) :
                /\ inventory[i].id = view.activeTreeId
                /\ inventory'[i].pruningCount = inventory[i].pruningCount + 1 ]_vars

\* the saved adult, wired four times before, has been wired a fifth time and
\* pruned once: its wiringState is back at 0
C11_Witness ==
  \E i \in 1..Len(inventory) :
    /\ inventory[i].species = CHERRY
    /\ inventory[i].stage = ADULT
    /\ inventory[i].wiringState = 0
    /\ inventory[i].pruningCount = 1

\* the value of the uppercase hexadecimal digit with char code c, -1 for any
\* other character
HexValue(c) ==
  IF c >= 48 /\ c <= 57 THEN c - 48
  ELSE IF c >= 65 /\ c <= 70 THEN c - 55
  ELSE -1

\* the number written by the two characters of tok from position k, -1 when
\* one of them is no uppercase hexadecimal digit
HexPair(tok, k) ==
  IF HexValue(tok[k]) < 0 \/ HexValue(tok[k + 1]) < 0 THEN -1
  ELSE (16 * HexValue(tok[k])) + HexValue(tok[k + 1])

\* C21: the entry an accepted stage advance appends is EVO-, six uppercase
\* hexadecimal digits, - and the random suffix of at most two characters;
\* the three digit pairs are the floors of the health, water and fertilizer
\* the handler read, each in 0..100 (00..64); and every value of 0..100 is
\* written as exactly two digits that read back as that value, so the
\* encoding of the three vitals is injective.
C21_TokenEncoding ==
  [][ \A i \in 1..Len(inventory) :
        inventory'[i].dna # inventory[i].dna =>
          LET tok  == inventory'[i].dna[Len(inventory'[i].dna)]
              tree == activeTree(view)[1]
          IN  /\ Len(tok) >= 11 /\ Len(tok) <= 13
              /\ SubSeq(tok, 1, 4) = <<69, 86, 79, 45>>
              /\ tok[11] = 45
              /\ HexPair(tok, 5) = tree.health \div 10
              /\ HexPair(tok, 7) = tree.water \div 10
              /\ HexPair(tok, 9) = tree.fertilizer \div 10
              /\ \A k \in {5, 7, 9} : HexPair(tok, k) \in 0..MAX_STATS
              /\ \A k \in 12..Len(tok) :
                   (tok[k] >= 48 /\ tok[k] <= 57) \/ (tok[k] >= 65 /\ tok[k] <= 90)
              /\ \A v \in 0..MAX_STATS :
                   /\ Len(padStart2(toUpperCase(toString16(v)))) = 2
                   /\ HexPair(padStart2(toUpperCase(toString16(v))), 1) = v ]_vars

\* the neglected seed has been advanced: its token writes water 10 as 0A
C21_Witness ==
  \E i \in 1..Len(inventory) :
    /\ inventory[i].species = CHERRY
    /\ inventory[i].stage = SAPLING
    /\ Len(inventory[i].dna) = 2
    /\ SubSeq(inventory[i].dna[2], 1, 11)
         = <<69, 86, 79, 45, 53, 65, 48, 65, 52, 48, 45>>

\* the rendered tree passes the three guards of a stage advance: health at
\* least 80, age at least 1 at SEED and 15 at SAPLING, stage below MASTER
SnapshotReady ==
  /\ activeTree(view) # <<>>
  /\ activeTree(view)[1].health >= 800
  /\ activeTree(view)[1].stage = SEED => activeTree(view)[1].age >= 10
  /\ activeTree(view)[1].stage = SAPLING => activeTree(view)[1].age >= 150
  /\ activeTree(view)[1].stage < MASTER

\* no tree of the garden g is ADULT or MASTER younger than 15, or above SEED
\* younger than 1
AgedForStage(g) ==
  \A i \in 1..Len(g) :
    /\ g[i].stage >= ADULT => g[i].age >= 150
    /\ g[i].stage > SEED => g[i].age >= 10

VitalsInRange(g) ==
  \A i \in 1..Len(g) :
    /\ g[i].water >= 0 /\ g[i].water <= 1000
    /\ g[i].fertilizer >= 0 /\ g[i].fertilizer <= 1000
    /\ g[i].health >= 0 /\ g[i].health <= 1000

\* the tree b is the tree a one tick later
Ticked(a, b) ==
  /\ b.water = (IF a.water >= 5 THEN a.water - 5 ELSE 0)
  /\ b.fertilizer = (IF a.fertilizer >= 2 THEN a.fertilizer - 2 ELSE 0)
  /\ b.health =
       (IF a.water < 200 \/ a.fertilizer < 200
        THEN (IF a.health >= 5 THEN a.health - 5 ELSE 0)
        ELSE IF a.water > 500 /\ a.fertilizer > 500
        THEN (IF a.health + 1 <= 1000 THEN a.health + 1 ELSE 1000)
        ELSE a.health)
  /\ [b EXCEPT !.water = 0, !.fertilizer = 0, !.health = 0, !.age = 0]
       = [a EXCEPT !.water = 0, !.fertilizer = 0, !.health = 0, !.age = 0]

\* the garden after the step differs from the garden before it only in the
\* tree the rendered garden shows as active
OnlyActiveTouched ==
  /\ Len(inventory') = Len(inventory)
  /\ \A i \in 1..Len(inventory) :
       inventory[i].id # view.activeTreeId => inventory'[i] = inventory[i]

\* C24: water, fertilizer and health of every tree stay in [0, 100]; a tick
\* lowers water by 0.5 and fertilizer by 0.2 down to 0, lowers health by 0.5
\* down to 0 when the water or the fertilizer before the tick is below 20,
\* raises it by 0.1 up to 100 when both are above 50 and keeps it otherwise,
\* and touches only the active tree; water and fertilize add 30 up to 100
\* to the active tree and change nothing else.
C24_VitalsInRange ==
  [][ /\ VitalsInRange(inventory) /\ VitalsInRange(inventory')
      /\ Tick =>
           /\ OnlyActiveTouched
           /\ \A i \in 1..Len(inventory) :
                inventory[i].id = view.activeTreeId =>
                  Ticked(inventory[i], inventory'[i])
      /\ handleWater =>
           /\ OnlyActiveTouched
           /\ \A i \in 1..Len(inventory) :
                inventory[i].id = view.activeTreeId =>
                  inventory'[i] =
                    [inventory[i] EXCEPT !.water =
                       IF inventory[i].water + 300 <= 1000
                       THEN inventory[i].water + 300 ELSE 1000]
      /\ handleFertilize =>
           /\ OnlyActiveTouched
           /\ \A i \in 1..Len(inventory) :
                inventory[i].id = view.activeTreeId =>
                  inventory'[i] =
                    [inventory[i] EXCEPT !.fertilizer =
                       IF inventory[i].fertilizer + 300 <= 1000
                       THEN inventory[i].fertilizer + 300 ELSE 1000] ]_vars

\* the maple has been watered three times: its water, 35.5 at first, stands
\* at the cap
C24_Witness ==
  \E i \in 1..Len(inventory) :
    /\ inventory[i].species = MAPLE
    /\ inventory[i].age = 149
    /\ inventory[i].water = 1000

\* no seed of the garden g is pruned or wired and no sapling is wired
ShapedByStage(g) ==
  \A i \in 1..Len(g) :
    /\ g[i].stage = SEED => g[i].pruningCount = 0 /\ g[i].wiringState = 0
    /\ g[i].stage \in {SEED, SAPLING} => g[i].wiringState = 0

\* the stage of the tree the rendered garden shows as active is below stage
BelowStage(stage) ==
  activeTree(view) # <<>> /\ activeTree(view)[1].stage < stage

\* C25: handlePrune changes nothing while the stage of the active tree is
\* below SAPLING and handleWire changes nothing while it is below ADULT; in
\* every reachable state a SEED has pruningCount 0 and wiringState 0 and a
\* SEED or SAPLING has wiringState 0.
C25_ShapingGated ==
  [][ /\ (handlePrune /\ BelowStage(SAPLING)) => inventory' = inventory
      /\ (handleWire /\ BelowStage(ADULT)) => inventory' = inventory
      /\ ShapedByStage(inventory) /\ ShapedByStage(inventory') ]_vars

\* the sapling has been pruned and is not wired
C25_Witness ==
  \E i \in 1..Len(inventory) :
    /\ inventory[i].species = MAPLE
    /\ inventory[i].stage = SAPLING
    /\ inventory[i].pruningCount = 1
    /\ inventory[i].wiringState = 0

\* the text r is the text t without the white space at its two ends
IsTrimOf(r, t) ==
  \E i \in 1..(Len(t) + 1), j \in 0..Len(t) :
    /\ r = SubSeq(t, i, j)
    /\ \A k \in 1..(i - 1) : t[k] \in WhiteSpace
    /\ \A k \in (j + 1)..Len(t) : t[k] \in WhiteSpace
    /\ r # <<>> => (r[1] \notin WhiteSpace /\ r[Len(r)] \notin WhiteSpace)

\* C22: the promise of getMasterGardenerAdvice is never rejected; when it is
\* fulfilled its value is the API Key missing message, with no request
\* made, if no key is configured, else the Try again later message if the
\* client construction, the request or the reading of response.text threw,
\* else the response text without the white space at its ends; handleConsult
\* shows that value as the advice; and neither the garden nor the tree handed
\* to the call is changed by it.
C22_AdviceFallback ==
  [][ /\ promise'.state # "rejected"
      /\ (promise.state # "fulfilled" /\ promise'.state = "fulfilled") =>
           IF apiKey = <<>> \/ apiKey = <<"">>
           THEN promise'.value = KeyMissingAdvice /\ requests' = 0
           ELSE IF service.kind = "text"
           THEN IsTrimOf(promise'.value, service.text)
           ELSE promise'.value = FallbackAdvice
      /\ (promise.state = "fulfilled" /\ promise'.state = "none") =>
           advice' = promise.value
      /\ (promise'.state # promise.state) =>
           /\ inventory' = inventory
           /\ promise.tree # <<>> /\ promise'.tree # <<>> =>
                promise'.tree = promise.tree ]_vars

\* a consultation has been answered " \nWater.\r\n" and resolved to "Water."
C22_Witness ==
  /\ promise.state = "fulfilled"
  /\ service.kind = "text"
  /\ promise.value = <<87, 97, 116, 101, 114, 46>>
  /\ promise.tree # <<>>
  /\ requests = 1

=============================================================================
